---- MODULE Spec2Model ----
(***************************************************************************)
(* South Fork vessel-traffic AIS pipeline.                                 *)
(*                                                                         *)
(*   southfork_cleanpoints.py      process_ais_to_gdb  (cleaning loop)     *)
(*   southfork_createtracklines.py run_trackline_pipeline (trips, lines)   *)
(*                                                                         *)
(* A report (one CSV row) is a record                                      *)
(*   [MMSI, BASEDATETIME, SOG, STATUS, LATLON]                             *)
(* A missing cell (NaN / NaT) is NULL.  BASEDATETIME is counted in ticks   *)
(* of 1/TicksPerHour hour, SOG in knots, LATLON is the point built from    *)
(* the LON and LAT columns, named by the cell of the chart it falls in     *)
(* (NULL when either coordinate is missing).                               *)
(***************************************************************************)
EXTENDS Integers, Sequences, FiniteSets, TLC

\* ------------------------------------------------------------------ bounds
NumVessels == 2        \* CSV files in data-raw/south_fork
MaxRows == 3           \* rows over all CSV files of one batch

\* --------------------------------------------------------- program constants
NULL == -1             \* NaN / NaT / None
TicksPerHour == 10     \* .dt.total_seconds() / 3600, one tick = 0.1 hour
MaxSOG == 40           \* df['SOG'] <= 40
LowSpeedKnots == 1     \* gdf['SOG'] < 1.0
StationaryHours == 1   \* state_durations >= 1.0
GapHours == 8          \* gdf['TIME_DIFF'] > 8
StatsGapHours == 1     \* gdf['TIME_DIFF_HOURS'] > 1
MinLinePoints == 2     \* len(x) >= 2
parked_statuses == {1, 5}

Vessels == 1..NumVessels

\* Chart cells.  The land mask and the port mask are regions of the chart; a
\* port buffer reaches from the quay over the water, so a port cell is not land.
\* Cells 0 and 3 are open water.
PortCells == {1}
LandCells == {2}

\* land_geometry.contains(x)
LandContains(p) == p \in LandCells
\* gdf.geometry.within(port_mask_geom)
WithinPort(p) == p \in PortCells

\* ------------------------------------------------------------ sequence helpers
RECURSIVE SumSeq(_)
SumSeq(s) == IF s = <<>> THEN 0 ELSE Head(s) + SumSeq(Tail(s))

RECURSIVE FilterSeq(_, _)
\* rows of s whose index is in keep, in order (boolean indexing)
FilterSeq(s, keep) ==
    IF s = <<>> THEN <<>>
    ELSE LET n == Len(s)
             front == FilterSeq(SubSeq(s, 1, n - 1), keep)
         IN  IF n \in keep THEN Append(front, s[n]) ELSE front

\* ------------------------------------------------------------------ cleaning
\* the missing cells filled with 0 instead of the rows dropped
DropNaFilled(df) ==
    [i \in DOMAIN df |->
        [MMSI |-> IF df[i].MMSI = NULL THEN 0 ELSE df[i].MMSI,
         BASEDATETIME |-> df[i].BASEDATETIME,
         SOG |-> IF df[i].SOG = NULL THEN 0 ELSE df[i].SOG,
         STATUS |-> df[i].STATUS,
         LATLON |-> IF df[i].LATLON = NULL THEN 0 ELSE df[i].LATLON]]

\* df.dropna(subset=['MMSI', 'SOG', 'LAT', 'LON'])
DropNa(df) ==
    FilterSeq(df, {i \in DOMAIN df :
        df[i].MMSI # NULL /\ df[i].SOG # NULL /\ df[i].LATLON # NULL})

\* df[df['SOG'] <= 40]
SpeedFilter(df) == FilterSeq(df, {i \in DOMAIN df : df[i].SOG <= MaxSOG})

\* the frame with the reports on land left in
LandFilterKeepsAll(gdf) == gdf

\* gdf[~gdf.geometry.apply(lambda x: land_geometry.contains(x))]
LandFilter(gdf) ==
    FilterSeq(gdf, {i \in DOMAIN gdf : ~LandContains(gdf[i].LATLON)})

\* Order of sort_values(['MMSI', 'BASEDATETIME']): ascending, missing values last.
KeyLess(x, y) == x # NULL /\ (y = NULL \/ x < y)
RowLess(a, b) ==
    \/ KeyLess(a.MMSI, b.MMSI)
    \/ a.MMSI = b.MMSI /\ KeyLess(a.BASEDATETIME, b.BASEDATETIME)

\* r put into the sorted s behind every row that does not sort after it
InsertRow(s, r) ==
    LET after == {i \in DOMAIN s : RowLess(r, s[i])}
        k == IF after = {} THEN Len(s) + 1
             ELSE CHOOSE i \in after : \A j \in after : i <= j
    IN  SubSeq(s, 1, k - 1) \o <<r>> \o SubSeq(s, k, Len(s))

\* the frame left in the order of its rows
SortValuesSkipped(s) == s

RECURSIVE SortValues(_)
\* gdf.sort_values(['MMSI', 'BASEDATETIME']): a stable sort on two keys
SortValues(s) ==
    IF s = <<>> THEN <<>>
    ELSE InsertRow(SortValues(SubSeq(s, 1, Len(s) - 1)), s[Len(s)])

\* index of the previous row of the same MMSI group, 0 when there is none
PrevInGroup(g, i) ==
    LET before == {j \in 1..(i - 1) : g[j].MMSI = g[i].MMSI}
    IN  IF before = {} THEN 0 ELSE CHOOSE j \in before : \A k \in before : k <= j

\* gdf.groupby('MMSI')['BASEDATETIME'].diff().dt.total_seconds() / 3600
GroupDiff(g) ==
    [i \in DOMAIN g |->
        LET p == PrevInGroup(g, i)
        IN  IF p = 0 \/ g[i].BASEDATETIME = NULL \/ g[p].BASEDATETIME = NULL
            THEN NULL
            ELSE g[i].BASEDATETIME - g[p].BASEDATETIME]

\* the frame of one vessel after the filters, sorted, with TIME_DIFF_HOURS
WithTimeDiff(g) ==
    LET d == GroupDiff(g)
    IN  [i \in DOMAIN g |->
            [MMSI |-> g[i].MMSI, BASEDATETIME |-> g[i].BASEDATETIME,
             SOG |-> g[i].SOG, STATUS |-> g[i].STATUS, LATLON |-> g[i].LATLON,
             TIME_DIFF_HOURS |-> d[i]]]

\* lines 66-69: read_csv, dropna, speed filter
ReadAndFilter(raw) == SpeedFilter(DropNa(raw))
\* lines 75-84: land filter, sort, time gaps
CleanVessel(raw) == WithTimeDiff(SortValues(LandFilter(ReadAndFilter(raw))))

\* all_vessel_stats[mmsi_label]
VesselStats(label, gdf) ==
    [MMSI |-> label,
     total_points |-> Len(gdf),
     gaps_gt_1hr |-> Cardinality({i \in DOMAIN gdf :
         gdf[i].TIME_DIFF_HOURS # NULL
         /\ gdf[i].TIME_DIFF_HOURS > StatsGapHours * TicksPerHour}),
     gaps_gt_8hr |-> Cardinality({i \in DOMAIN gdf :
         gdf[i].TIME_DIFF_HOURS # NULL
         /\ gdf[i].TIME_DIFF_HOURS > GapHours * TicksPerHour})]

\* plot_data_mins = gdf['TIME_DIFF_HOURS'].dropna(); a histogram is drawn when
\* it is not empty
HasPlotData(gdf) == \E i \in DOMAIN gdf : gdf[i].TIME_DIFF_HOURS # NULL

\* ------------------------------------------------------------ trip building
\* gdf['IN_PORT'] = gdf.geometry.within(port_mask_geom)
InPortCol(g) == [i \in DOMAIN g |-> WithinPort(g[i].LATLON)]

\* gdf['IS_LOW_SPEED'] = gdf['SOG'] < 1.0
LowSpeedCol(g) == [i \in DOMAIN g |-> g[i].SOG # NULL /\ g[i].SOG < LowSpeedKnots]

\* (gdf['IS_LOW_SPEED'] != gdf['IS_LOW_SPEED'].shift()).cumsum(): the shift runs
\* over the whole frame, and the first row differs from the missing value
StateGroupCol(g) ==
    LET low == LowSpeedCol(g)
    IN  [i \in DOMAIN g |->
            Cardinality({j \in 1..i : j = 1 \/ low[j] # low[j - 1]})]

\* the sum taken over the state group alone, whatever the vessel
StateDurationsAcrossVessels(g) ==
    LET td == GroupDiff(g)
        sg == StateGroupCol(g)
    IN  [i \in DOMAIN g |->
            SumSeq(FilterSeq([j \in DOMAIN g |-> td[j]],
                {j \in DOMAIN g : sg[j] = sg[i] /\ td[j] # NULL}))]

\* gdf.groupby(['MMSI', 'state_group'])['TIME_DIFF'].transform('sum'); a missing
\* TIME_DIFF is skipped by the sum
StateDurations(g) ==
    LET td == GroupDiff(g)
        sg == StateGroupCol(g)
    IN  [i \in DOMAIN g |->
            SumSeq(FilterSeq([j \in DOMAIN g |-> td[j]],
                {j \in DOMAIN g : g[j].MMSI = g[i].MMSI /\ sg[j] = sg[i]
                                  /\ td[j] # NULL}))]

\* ((gdf['IS_LOW_SPEED'] == True) & (state_durations >= 1.0)).astype(int)
FlagStationaryCol(g) ==
    LET low == LowSpeedCol(g)
        dur == StateDurations(g)
    IN  [i \in DOMAIN g |->
            IF low[i] /\ dur[i] >= StationaryHours * TicksPerHour THEN 1 ELSE 0]

\* .isin(parked_statuses)
IsParked(status) == status \in parked_statuses

\* (~gdf['STATUS'].isin(parked_statuses)) & (gdf['STATUS'].shift(1).isin(parked_statuses))
StatusChangedCol(g) ==
    [i \in DOMAIN g |->
        ~IsParked(g[i].STATUS) /\ i > 1 /\ IsParked(g[i - 1].STATUS)]

\* (gdf['IN_PORT'] == False) & (gdf['IN_PORT'].shift(1) == True)
LeftPortCol(g) ==
    LET inport == InPortCol(g)
    IN  [i \in DOMAIN g |-> ~inport[i] /\ i > 1 /\ inport[i - 1]]

\* a gap of exactly 8 hours counted as exceeding it
GapExceededFromEight(td) == td # NULL /\ td >= GapHours * TicksPerHour

\* gdf['TIME_DIFF'] > 8
GapExceeded(td) == td # NULL /\ td > GapHours * TicksPerHour

\* gdf['TRIP_START']
TripStartCol(g) ==
    LET left == LeftPortCol(g)
        td == GroupDiff(g)
        changed == StatusChangedCol(g)
    IN  [i \in DOMAIN g |-> left[i] \/ GapExceeded(td[i]) \/ changed[i]]

\* gdf.groupby('MMSI')['TRIP_START'].cumsum()
TripIdCol(g) ==
    LET start == TripStartCol(g)
    IN  [i \in DOMAIN g |->
            Cardinality({j \in 1..i : g[j].MMSI = g[i].MMSI /\ start[j]})]

\* the frame of lines 34-80: the merged layer read back, sorted, with the
\* derived columns
Enrich(layer_rows) ==
    LET g == SortValues(layer_rows)
        inport == InPortCol(g)
        td == GroupDiff(g)
        low == LowSpeedCol(g)
        sg == StateGroupCol(g)
        flag == FlagStationaryCol(g)
        changed == StatusChangedCol(g)
        start == TripStartCol(g)
        trip == TripIdCol(g)
    IN  [i \in DOMAIN g |->
            [MMSI |-> g[i].MMSI, BASEDATETIME |-> g[i].BASEDATETIME,
             SOG |-> g[i].SOG, STATUS |-> g[i].STATUS, LATLON |-> g[i].LATLON,
             TIME_DIFF_HOURS |-> g[i].TIME_DIFF_HOURS,
             IN_PORT |-> inport[i], TIME_DIFF |-> td[i],
             IS_LOW_SPEED |-> low[i], state_group |-> sg[i],
             FLAG_STATIONARY |-> flag[i], STATUS_CHANGED |-> changed[i],
             TRIP_START |-> start[i], TRIP_ID |-> trip[i]]]

\* the keys of gdf.groupby(['MMSI', 'TRIP_ID'])
TripKeys(gdf) == {<<gdf[i].MMSI, gdf[i].TRIP_ID>> : i \in DOMAIN gdf}
GroupRows(gdf, key) ==
    FilterSeq(gdf, {i \in DOMAIN gdf :
        gdf[i].MMSI = key[1] /\ gdf[i].TRIP_ID = key[2]})

\* LineString(x.tolist()) if len(x) >= 2 else None
LineOf(rows) ==
    IF Len(rows) >= MinLinePoints
    THEN [i \in DOMAIN rows |-> rows[i].LATLON]
    ELSE <<>>

\* lines_series ... .dropna(): one row for each group that has a geometry
LinesGdf(gdf) ==
    {[MMSI |-> key[1], TRIP_ID |-> key[2], geometry |-> LineOf(GroupRows(gdf, key))] :
        key \in {k \in TripKeys(gdf) : LineOf(GroupRows(gdf, k)) # <<>>}}

SetMin(S) == IF S = {} THEN NULL ELSE CHOOSE x \in S : \A y \in S : x <= y
SetMax(S) == IF S = {} THEN NULL ELSE CHOOSE x \in S : \A y \in S : y <= x

\* gdf.groupby(['MMSI', 'TRIP_ID']).agg(...), DURATION_HRS; min and max skip
\* missing timestamps
Metrics(gdf) ==
    {LET rows == GroupRows(gdf, key)
         times == {rows[i].BASEDATETIME : i \in DOMAIN rows} \ {NULL}
     IN  [MMSI |-> key[1], TRIP_ID |-> key[2],
          START_TIME |-> SetMin(times), END_TIME |-> SetMax(times),
          HAD_STATIONARY |-> SetMax({rows[i].FLAG_STATIONARY : i \in DOMAIN rows}),
          DURATION_HRS |-> IF times = {} THEN NULL
                           ELSE SetMax(times) - SetMin(times)] :
        key \in TripKeys(gdf)}

\* lines_gdf.merge(metrics, on=['MMSI', 'TRIP_ID'])
FinalLines(lines_gdf, metrics) ==
    {[MMSI |-> l.MMSI, TRIP_ID |-> l.TRIP_ID, geometry |-> l.geometry,
      START_TIME |-> m.START_TIME, END_TIME |-> m.END_TIME,
      HAD_STATIONARY |-> m.HAD_STATIONARY, DURATION_HRS |-> m.DURATION_HRS] :
        <<l, m>> \in {p \in lines_gdf \X metrics :
            p[1].MMSI = p[2].MMSI /\ p[1].TRIP_ID = p[2].TRIP_ID}}

\* --------------------------------------------------------------- density grid
\* h3.latlng_to_cell(row.geometry.y, row.geometry.x, resolution): the hexagon
\* a position lies in; a hexagon holds two positions of the chart
LatLngToCell(p) == p \div 2

\* the sum of a hexagon taken over all vessels
HexSummaryByCell(rows) ==
    LET h3_id == [i \in DOMAIN rows |-> LatLngToCell(rows[i].LATLON)]
    IN  {[h3_id |-> h3_id[i], MMSI |-> rows[i].MMSI,
          VESSEL_HOURS |->
              SumSeq(FilterSeq([j \in DOMAIN rows |-> rows[j].TIME_DIFF_HOURS],
                  {j \in DOMAIN rows : h3_id[j] = h3_id[i]
                                        /\ rows[j].TIME_DIFF_HOURS # NULL}))] :
            i \in DOMAIN rows}

\* gdf.groupby(['h3_id', 'MMSI']).agg({'TIME_DIFF_HOURS': 'sum'}), renamed to
\* VESSEL_HOURS; a missing TIME_DIFF_HOURS is skipped by the sum
HexSummary(rows) ==
    LET h3_id == [i \in DOMAIN rows |-> LatLngToCell(rows[i].LATLON)]
    IN  {[h3_id |-> h3_id[i], MMSI |-> rows[i].MMSI,
          VESSEL_HOURS |->
              SumSeq(FilterSeq([j \in DOMAIN rows |-> rows[j].TIME_DIFF_HOURS],
                  {j \in DOMAIN rows : h3_id[j] = h3_id[i]
                                        /\ rows[j].MMSI = rows[i].MMSI
                                        /\ rows[j].TIME_DIFF_HOURS # NULL}))] :
            i \in DOMAIN rows}

\* --------------------------------------------------------------------- state
VARIABLES
    csv,               \* csv_folder: the rows of each vessel's CSV file
    fault,             \* per file, the statement of the try block that raises
    pc,                \* where the run is
    idx,               \* position of the loop in csv_files
    land_ok,           \* land_geometry_raw is not None
    files_read,        \* the files pd.read_csv was called on
    first_vessel,
    all_vessel_stats,
    hists,             \* vessel_histograms/<label>_hist.png
    layers,            \* the individual layers V<label> of the geodatabase
    merged,            \* the layer south_fork_vessel_merged
    outcome,           \* what the loop printed for each file
    summary,           \* vessel_timediff_summary.csv
    gdf,               \* the frame of run_trackline_pipeline
    metrics,           \* its metrics frame
    lines,             \* the layer south_fork_vessel_trips_lines
    track_error,       \* the vessel whose rows made run_trackline_pipeline raise
    hexbins,           \* the layer hexbins_res8_by_vessel
    fault_next,        \* the statements that raise when the pipeline is run again
    second_run,        \* the pipeline has been started a second time
    run1               \* what the first run left behind, kept for comparison

vars == <<csv, fault, pc, idx, land_ok, files_read, first_vessel,
          all_vessel_stats, hists, layers, merged, outcome, summary,
          gdf, metrics, lines, track_error, hexbins, fault_next, second_run,
          run1>>

inputs == <<csv, fault, fault_next>>
clean_vars == <<idx, files_read, first_vessel, all_vessel_stats, hists,
                layers, merged, outcome>>
track_vars == <<gdf, metrics, lines, track_error>>
rerun_vars == <<second_run, run1>>

NoLayer == [exists |-> FALSE, rows |-> <<>>]
Layer(rows) == [exists |-> TRUE, rows |-> rows]
NoLines == [exists |-> FALSE, rows |-> {}]
NoFile == [exists |-> FALSE, rows |-> {}]
\* nothing is recorded of a first run yet
NoRun == [pc |-> "none", merged |-> NoLayer, gdf |-> <<>>, metrics |-> {},
          lines |-> NoLines]

\* d[k] = v
DictPut(d, k, v) == [x \in DOMAIN d \cup {k} |-> IF x = k THEN v ELSE d[x]]

\* ------------------------------------------------------------------- inputs
RECURSIVE RowsBefore(_, _)
RowsBefore(lens, v) == IF v = 1 THEN 0 ELSE lens[v - 1] + RowsBefore(lens, v - 1)

\* how MaxRows rows or fewer fall into the files
LenSplits ==
    {lens \in [Vessels -> 0..MaxRows] : RowsBefore(lens, NumVessels + 1) <= MaxRows}

\* a row of the file of vessel v: its MMSI column names v unless the cell is empty
RowFor(v, r) == [r EXCEPT !.MMSI = IF r.MMSI = NULL THEN NULL ELSE v]

Files(lens, cells) ==
    [v \in Vessels |->
        [k \in 1..lens[v] |-> RowFor(v, cells[RowsBefore(lens, v) + k])]]

Report(t, sog, status, latlon) ==
    [MMSI |-> 0, BASEDATETIME |-> t, SOG |-> sog, STATUS |-> status,
     LATLON |-> latlon]

\* the statements of the try block an exception is raised by
FaultPoints == {"none", "read", "hist", "layer", "merged"}
NoFaults == [v \in Vessels |-> "none"]

\* reports for the runs with failures: one at sea, one on land
FaultReports == {Report(0, 10, 0, 0), Report(3, 10, 0, 2)}

\* reports for the filters: two good ones (one at the speed limit), one too fast,
\* one on land, and one for each missing cell
DirtyReports ==
    {Report(13, 10, 0, 0), Report(3, MaxSOG, 0, 0), Report(0, MaxSOG + 1, 0, 0),
     Report(0, 10, 0, 2), Report(0, 10, 0, NULL), Report(0, NULL, 0, 0),
     Report(NULL, 10, 0, 0), [Report(0, 10, 0, 0) EXCEPT !.MMSI = NULL]}

\* reports for the trip segmentation: 0.3 h, exactly 8 h and 8.3 h apart;
\* underway at sea, anchored at sea, moored in port
SegReports ==
    {Report(t, 10, sp[1], sp[2]) :
        t \in {0, 3, 83}, sp \in {<<0, 0>>, <<1, 0>>, <<5, 1>>}}

\* reports for the density grid: 0.3 h and 1 h apart, at two positions of one
\* hexagon and one position of another
HexReports == {Report(t, 10, 0, p) : t \in {0, 3, 13}, p \in {0, 1, 3}}

\* reports for the repeated run: a gap above 8 h, a stop of 1 h, a port call
IdemReports ==
    {Report(0, 10, 0, 0), Report(3, 0, 1, 1), Report(13, 0, 1, 1),
     Report(13, 10, 0, 0), Report(96, 10, 0, 0), Report(3, 10, 0, 2)}

\* reports for the stationary runs: slow and under way, 1 h and 0.3 h apart
StatReports == {Report(t, sog, 0, 0) : t \in {0, 10, 13}, sog \in {0, 10}}

InitWith(Reports, Faults, NextFaults) ==
    /\ \E lens \in LenSplits : \E cells \in [1..MaxRows -> Reports] :
           csv = Files(lens, cells)
    /\ fault \in Faults
    /\ fault_next \in NextFaults
    /\ pc = "start"
    /\ idx = 1
    /\ land_ok = FALSE
    /\ files_read = {}
    /\ first_vessel = TRUE
    /\ all_vessel_stats = <<>>
    /\ hists = {}
    /\ layers = <<>>
    /\ merged = NoLayer
    /\ outcome = <<>>
    /\ summary = NoFile
    /\ gdf = <<>>
    /\ metrics = {}
    /\ lines = NoLines
    /\ track_error = 0
    /\ hexbins = NoFile
    /\ second_run = FALSE
    /\ run1 = NoRun

Init == InitWith(FaultReports, [Vessels -> FaultPoints], {NoFaults})
InitClean == InitWith(DirtyReports, {NoFaults}, {NoFaults})
InitSeg == InitWith(SegReports, {NoFaults}, {NoFaults})
InitStat == InitWith(StatReports, {NoFaults}, {NoFaults})
InitHex == InitWith(HexReports, {NoFaults}, {NoFaults})
InitIdem == InitWith(IdemReports, {NoFaults}, {NoFaults})
InitRerun == InitWith(FaultReports, {NoFaults}, [Vessels -> FaultPoints])

\* ------------------------------------------------------------------ actions
\* lines 48-55: the land mask is built, the CSV files are listed
GetLandMask ==
    /\ pc = "start"
    /\ pc' = "loop"
    /\ land_ok' = TRUE
    /\ UNCHANGED <<inputs, clean_vars, summary, track_vars, hexbins, rerun_vars>>

\* get_land_mask returns None and the run goes on into the loop
LandMaskFailsNoExit ==
    /\ pc = "start"
    /\ pc' = "loop"
    /\ land_ok' = FALSE
    /\ UNCHANGED <<inputs, clean_vars, summary, track_vars, hexbins, rerun_vars>>

\* lines 43-45 and 49-51: get_land_mask returns None and the run exits
LandMaskFails ==
    /\ pc = "start"
    /\ pc' = "exit"
    /\ land_ok' = FALSE
    /\ UNCHANGED <<inputs, clean_vars, summary, track_vars, hexbins, rerun_vars>>

\* the merged layer opened with mode 'a' for every vessel
MergedToFileAppends(first, layer, frame) == Layer(layer.rows \o frame)

\* the merged layer opened with mode 'w' for every vessel
MergedToFileOverwrites(first, layer, frame) == Layer(frame)

\* lines 129-133: mode 'w' replaces the merged layer, mode 'a' adds to it
MergedToFile(first, layer, frame) ==
    IF first THEN Layer(frame) ELSE Layer(layer.rows \o frame)

\* lines 60-138: one turn of the loop over csv_files
ProcessVessel ==
    /\ pc = "loop"
    /\ idx <= NumVessels
    /\ LET mmsi_label == idx
           f == fault[mmsi_label]
           df == ReadAndFilter(csv[mmsi_label])
           kept == LandFilter(df)
           frame == CleanVessel(csv[mmsi_label])
           hist_raises == f = "hist" /\ HasPlotData(frame)
           result ==
               IF f = "read" THEN "Error"
               ELSE IF df = <<>> THEN "Skipped (Empty)"
               ELSE IF kept = <<>> THEN "Skipped (Land)"
               ELSE IF hist_raises \/ f \in {"layer", "merged"} THEN "Error"
               ELSE "Done"
           got_stats == f # "read" /\ kept # <<>>
           got_hist == got_stats /\ HasPlotData(frame) /\ ~hist_raises
           got_layer == got_stats /\ ~hist_raises /\ f # "layer"
       IN  /\ files_read' = files_read \cup {mmsi_label}
           /\ outcome' = DictPut(outcome, mmsi_label, result)
           /\ all_vessel_stats' =
                  IF got_stats
                  THEN DictPut(all_vessel_stats, mmsi_label,
                               VesselStats(mmsi_label, frame))
                  ELSE all_vessel_stats
           /\ hists' = IF got_hist THEN hists \cup {mmsi_label} ELSE hists
           /\ layers' = IF got_layer THEN DictPut(layers, mmsi_label, frame)
                        ELSE layers
           /\ merged' =
                  IF result # "Done" THEN merged
                  ELSE MergedToFile(first_vessel, merged, frame)
           /\ first_vessel' = IF result = "Done" THEN FALSE ELSE first_vessel
    /\ idx' = idx + 1
    /\ UNCHANGED <<inputs, pc, land_ok, summary, track_vars, hexbins, rerun_vars>>

\* lines 140-152: the loop is over, the statistics are returned and, when
\* there are any, saved
WriteSummary ==
    /\ pc = "loop"
    /\ idx > NumVessels
    /\ pc' = "cleaned"
    /\ summary' =
           IF DOMAIN all_vessel_stats # {}
           THEN [exists |-> TRUE,
                 rows |-> {all_vessel_stats[k] : k \in DOMAIN all_vessel_stats}]
           ELSE summary
    /\ UNCHANGED <<inputs, land_ok, clean_vars, track_vars, hexbins, rerun_vars>>

\* southfork_createtracklines.py, lines 31-121, run without an exception
RunTracklinePipeline ==
    /\ pc = "cleaned"
    /\ merged.exists
    /\ pc' = "tracked"
    /\ gdf' = Enrich(merged.rows)
    /\ metrics' = Metrics(gdf')
    /\ lines' = [exists |-> TRUE, rows |-> FinalLines(LinesGdf(gdf'), metrics')]
    /\ UNCHANGED <<inputs, land_ok, clean_vars, summary, track_error, hexbins,
                   rerun_vars>>

\* the same run when a statement raises on the rows of one vessel: nothing in
\* lines 31-121 catches it, so the function is left before line 119
TracklinePipelineRaises ==
    /\ pc = "cleaned"
    /\ merged.exists
    /\ \E v \in Vessels :
           /\ \E i \in DOMAIN merged.rows : merged.rows[i].MMSI = v
           /\ track_error' = v
    /\ pc' = "trackfail"
    /\ UNCHANGED <<inputs, land_ok, clean_vars, summary, gdf, metrics, lines,
                   hexbins, rerun_vars>>

Next ==
    \/ GetLandMask
    \/ LandMaskFails
    \/ ProcessVessel
    \/ WriteSummary
    \/ RunTracklinePipeline
    \/ TracklinePipelineRaises

\* southfork_createhexbins.py, lines 20-54: nothing is written for an empty
\* merged layer
CreateDetailedHexbins ==
    /\ pc \in {"cleaned", "tracked", "trackfail"}
    /\ merged.exists
    /\ ~hexbins.exists
    /\ hexbins' = IF merged.rows = <<>> THEN hexbins
                  ELSE [exists |-> TRUE, rows |-> HexSummary(merged.rows)]
    /\ UNCHANGED <<inputs, pc, land_ok, clean_vars, summary, track_vars,
                   rerun_vars>>

\* the cleaning script is started again on the same folder and geodatabase:
\* lines 57-58 start from first_vessel = True and empty statistics, the files
\* and layers written before are still there
Rerun ==
    /\ ~second_run
    /\ pc \in {"exit", "cleaned", "tracked", "trackfail"}
    /\ second_run' = TRUE
    /\ run1' = [pc |-> pc, merged |-> merged, gdf |-> gdf, metrics |-> metrics,
                lines |-> lines]
    /\ fault' = fault_next
    /\ pc' = "start"
    /\ idx' = 1
    /\ land_ok' = FALSE
    /\ files_read' = {}
    /\ first_vessel' = TRUE
    /\ all_vessel_stats' = <<>>
    /\ outcome' = <<>>
    /\ gdf' = <<>>
    /\ metrics' = {}
    /\ track_error' = 0
    /\ UNCHANGED <<csv, fault_next, hists, layers, merged, summary, lines,
                   hexbins>>

NextHex == Next \/ CreateDetailedHexbins
NextRerun == Next \/ Rerun

Spec == Init /\ [][Next]_vars
SpecHex == InitHex /\ [][NextHex]_vars
SpecIdem == InitIdem /\ [][NextRerun]_vars
SpecRerun == InitRerun /\ [][NextRerun]_vars
SpecClean == InitClean /\ [][Next]_vars
SpecSeg == InitSeg /\ [][Next]_vars
SpecStat == InitStat /\ [][Next]_vars

\* ------------------------------------------------------------------- claims
\* the rows of vessel v in the frame, and the first of them
RowsOf(v) == {i \in DOMAIN gdf : gdf[i].MMSI = v}
FirstRow(v) == CHOOSE i \in RowsOf(v) : \A j \in RowsOf(v) : i <= j
\* the row of the same vessel right before row i, 0 for the vessel's first row
PrevRow(i) == IF i > 1 /\ gdf[i - 1].MMSI = gdf[i].MMSI THEN i - 1 ELSE 0

\* C1: the first retained report of every vessel has trip identifier 1,
\* whatever its geofence flag, status code and speed are.
C1_FirstReportTripOne ==
    pc = "tracked" =>
        \A v \in Vessels : RowsOf(v) # {} => gdf[FirstRow(v)].TRIP_ID = 1

\* the derived fields of the rows of vessel v in a frame
DerivedOf(v, frame) ==
    LET own == FilterSeq(frame, {i \in DOMAIN frame : frame[i].MMSI = v})
    IN  [i \in DOMAIN own |->
            <<own[i].TIME_DIFF, own[i].IS_LOW_SPEED, own[i].FLAG_STATIONARY,
              own[i].STATUS_CHANGED, own[i].TRIP_START, own[i].TRIP_ID>>]
\* merged layers with the same reports of v and other reports of the others:
\* none at all, or one report of one other vessel
OtherBatches(v) ==
    LET own == FilterSeq(merged.rows,
                   {i \in DOMAIN merged.rows : merged.rows[i].MMSI = v})
    IN  {own} \cup
        {CleanVessel(<<RowFor(w, r)>>) \o own :
            w \in Vessels \ {v}, r \in SegReports}

\* C2: the derived fields of the reports of a vessel are the same in any two
\* batches that hold the same reports of that vessel, whatever the reports of
\* the other vessels are.
C2_VesselIndependence ==
    pc = "tracked" =>
        \A v \in Vessels : \A other \in OtherBatches(v) :
            DerivedOf(v, Enrich(other)) = DerivedOf(v, gdf)

\* rows a..b are a maximal low-speed run of one vessel
IsLowRun(a, b) ==
    /\ a <= b
    /\ \A i \in a..b : gdf[i].MMSI = gdf[a].MMSI /\ gdf[i].SOG < LowSpeedKnots
    /\ PrevRow(a) = 0 \/ gdf[a - 1].SOG >= LowSpeedKnots
    /\ b = Len(gdf) \/ gdf[b + 1].MMSI # gdf[b].MMSI
         \/ gdf[b + 1].SOG >= LowSpeedKnots

\* C3: a maximal low-speed run of exactly two reports 0.3 hours apart is never
\* flagged stationary, wherever it lies in the sequence of its vessel, and
\* neither is a run of one single low-speed report.
C3_ShortRunNotStationary ==
    pc = "tracked" =>
        \A a \in DOMAIN gdf : \A b \in DOMAIN gdf :
            /\ IsLowRun(a, b)
            /\ \/ b = a
               \/ b = a + 1 /\ gdf[b].BASEDATETIME - gdf[a].BASEDATETIME = 3
            => \A i \in a..b : gdf[i].FLAG_STATIONARY = 0

\* C4: a (vessel, trip) group of exactly one report has no line geometry, and
\* the output still holds a metrics record for its key, with start = end and
\* duration 0.
C4_SinglePointMetrics ==
    pc = "tracked" =>
        \A key \in TripKeys(gdf) :
            Len(GroupRows(gdf, key)) = 1 =>
                /\ \A l \in lines.rows :
                       l.MMSI = key[1] /\ l.TRIP_ID = key[2] => l.geometry = <<>>
                /\ \E l \in lines.rows :
                       /\ l.MMSI = key[1] /\ l.TRIP_ID = key[2]
                       /\ l.START_TIME = l.END_TIME
                       /\ l.DURATION_HRS = 0

\* the report has all five required attributes
Complete(r) ==
    /\ r.MMSI # NULL /\ r.SOG # NULL /\ r.LATLON # NULL
    /\ r.BASEDATETIME # NULL

\* C5: no retained report misses identifier, speed, latitude, longitude or
\* timestamp, none is faster than 40 knots, and a complete report of exactly 40
\* knots is retained unless it lies inside the land region.
C5_CleanedComplete ==
    \A v \in DOMAIN layers :
        /\ \A i \in DOMAIN layers[v] :
               Complete(layers[v][i]) /\ layers[v][i].SOG <= 40
        /\ \A k \in DOMAIN csv[v] :
               /\ Complete(csv[v][k]) /\ csv[v][k].SOG = 40
               /\ csv[v][k].LATLON \notin LandCells
               => \E i \in DOMAIN layers[v] :
                      /\ layers[v][i].BASEDATETIME = csv[v][k].BASEDATETIME
                      /\ layers[v][i].SOG = 40
                      /\ layers[v][i].STATUS = csv[v][k].STATUS
                      /\ layers[v][i].LATLON = csv[v][k].LATLON

\* the three transitions between row p and row i read off the reports
LeftPort(p, i) == gdf[p].LATLON \in PortCells /\ gdf[i].LATLON \notin PortCells
LongGap(p, i) ==
    /\ gdf[p].BASEDATETIME # NULL /\ gdf[i].BASEDATETIME # NULL
    /\ gdf[i].BASEDATETIME - gdf[p].BASEDATETIME > 8 * TicksPerHour
CastOff(p, i) == gdf[p].STATUS \in {1, 5} /\ gdf[i].STATUS \notin {1, 5}

\* C6: after the first report of a vessel, the trip identifier is that of the
\* preceding report of the vessel plus 1 when the vessel left port, was silent
\* for more than 8 hours or left the anchored or moored status, and is that of
\* the preceding report otherwise.
C6_TripIdStep ==
    pc = "tracked" =>
        \A i \in DOMAIN gdf :
            LET p == PrevRow(i)
            IN  p # 0 =>
                    gdf[i].TRIP_ID =
                        IF LeftPort(p, i) \/ LongGap(p, i) \/ CastOff(p, i)
                        THEN gdf[p].TRIP_ID + 1
                        ELSE gdf[p].TRIP_ID
\* a gap of exactly 8 hours that starts no trip, and two transitions at once
\* that start one
C6_Witness ==
    /\ pc = "tracked"
    /\ \E i \in DOMAIN gdf :
           /\ PrevRow(i) # 0
           /\ gdf[i].BASEDATETIME - gdf[i - 1].BASEDATETIME = 8 * TicksPerHour
           /\ gdf[i].TRIP_ID = gdf[i - 1].TRIP_ID
    /\ \E i \in DOMAIN gdf :
           /\ PrevRow(i) # 0
           /\ LeftPort(i - 1, i) /\ CastOff(i - 1, i)
           /\ gdf[i].TRIP_ID = gdf[i - 1].TRIP_ID + 1

\* C7: along the timestamp order of a vessel the trip identifier never falls
\* and rises by at most 1 from one report to the next, so the reports of one
\* (vessel, trip) key are one contiguous block.
C7_TripIdMonotone ==
    pc = "tracked" =>
        \A i \in DOMAIN gdf : \A j \in DOMAIN gdf :
            gdf[i].MMSI = gdf[j].MMSI =>
                /\ gdf[i].BASEDATETIME # NULL
                   /\ gdf[i].BASEDATETIME < gdf[j].BASEDATETIME
                       => gdf[i].TRIP_ID <= gdf[j].TRIP_ID
                /\ j = i + 1 => gdf[j].TRIP_ID - gdf[i].TRIP_ID \in {0, 1}
                /\ i < j /\ gdf[i].TRIP_ID = gdf[j].TRIP_ID
                       => \A k \in i..j : gdf[k].TRIP_ID = gdf[i].TRIP_ID
\* a vessel whose file was not in time order and that made two trips
C7_Witness ==
    /\ pc = "tracked"
    /\ \E v \in Vessels :
           /\ \E k \in DOMAIN csv[v] : k > 1
                  /\ csv[v][k].BASEDATETIME < csv[v][k - 1].BASEDATETIME
           /\ \E i \in RowsOf(v) : \E j \in RowsOf(v) :
                  gdf[i].TRIP_ID < gdf[j].TRIP_ID

\* C8: time-since-previous is the timestamp minus the timestamp of the
\* preceding retained report of the same vessel, and is null exactly for the
\* first retained report of each vessel, also when the input is unsorted.
C8_TimeSincePrevious ==
    pc = "tracked" =>
        \A i \in DOMAIN gdf :
            LET p == PrevRow(i)
            IN  /\ (gdf[i].TIME_DIFF = NULL) <=> (p = 0)
                /\ (gdf[i].TIME_DIFF_HOURS = NULL) <=> (p = 0)
                /\ p # 0 =>
                       /\ gdf[i].TIME_DIFF =
                              gdf[i].BASEDATETIME - gdf[p].BASEDATETIME
                       /\ gdf[i].TIME_DIFF_HOURS = gdf[i].TIME_DIFF

\* the vessels whose processing raised
Failed ==
    {v \in DOMAIN outcome : outcome[v] = "Error"} \cup ({track_error} \ {0})
\* the retained reports of the files of the vessels in vs, file after file
RECURSIVE CleanedBatch(_, _)
CleanedBatch(n, vs) ==
    IF n = 0 THEN <<>>
    ELSE CleanedBatch(n - 1, vs)
             \o (IF n \in vs THEN CleanVessel(csv[n]) ELSE <<>>)
LinesOf(v, rows) ==
    LET frame == Enrich(rows)
    IN  {l \in FinalLines(LinesGdf(frame), Metrics(frame)) : l.MMSI = v}

\* C9: a failure raised while one vessel is processed, in cleaning or in trip
\* building, stops that vessel only: every other vessel is processed to the
\* end and its points and lines are emitted as if the failing vessel had not
\* been in the batch.
C9_FailureIsolation ==
    pc \in {"tracked", "trackfail"} =>
        \A v \in Vessels \ Failed :
            /\ FilterSeq(merged.rows,
                   {i \in DOMAIN merged.rows : merged.rows[i].MMSI = v})
                   = CleanVessel(csv[v])
            /\ CleanVessel(csv[v]) # <<>> =>
                   /\ lines.exists
                   /\ {l \in lines.rows : l.MMSI = v}
                          = LinesOf(v, CleanedBatch(NumVessels, Vessels \ Failed))

\* C10: when the land mask cannot be built the cleaning run stops before any
\* work on a vessel: no file is read, no vessel is filtered, and no layer,
\* histogram or statistics entry is written.
C10_MaskFailureStopsRun ==
    pc # "start" /\ ~land_ok =>
        /\ files_read = {} /\ outcome = <<>>
        /\ layers = <<>> /\ ~merged.exists
        /\ hists = {} /\ all_vessel_stats = <<>> /\ ~summary.exists
\* the run has stopped on the failed mask with a file waiting that holds a
\* report the filters would retain
C10_Witness ==
    /\ pc = "exit" /\ ~land_ok
    /\ \E v \in Vessels : CleanVessel(csv[v]) # <<>>

\* every report of the file of v is one the filters remove: a missing MMSI, SOG
\* or coordinate, more than 40 knots, or a point on land
AllRemoved(v) ==
    \A k \in DOMAIN csv[v] :
        \/ csv[v][k].MMSI = NULL \/ csv[v][k].SOG = NULL
        \/ csv[v][k].LATLON = NULL
        \/ csv[v][k].SOG > 40
        \/ csv[v][k].LATLON \in LandCells
\* the vessels exported so far in this run
Exported == {v \in DOMAIN outcome : outcome[v] = "Done"}

Slow(i) == gdf[i].SOG < 1
\* rows i and j lie in one run: one vessel, one classification, nothing else
\* between them
SameRun(i, j) ==
    LET lo == IF i < j THEN i ELSE j
        hi == IF i < j THEN j ELSE i
    IN  \A k \in lo..hi : gdf[k].MMSI = gdf[i].MMSI /\ (Slow(k) <=> Slow(i))
RunOf(i) == {j \in DOMAIN gdf : SameRun(i, j)}
\* hours (in ticks) since the preceding report of the vessel, 0 when null
SincePrev(i) ==
    IF PrevRow(i) = 0 \/ gdf[i].BASEDATETIME = NULL
       \/ gdf[i - 1].BASEDATETIME = NULL
    THEN 0
    ELSE gdf[i].BASEDATETIME - gdf[i - 1].BASEDATETIME
RECURSIVE SumSincePrev(_)
SumSincePrev(S) ==
    IF S = {} THEN 0
    ELSE LET x == CHOOSE y \in S : TRUE
         IN  SincePrev(x) + SumSincePrev(S \ {x})

Attributes(r) ==
    [MMSI |-> r.MMSI, BASEDATETIME |-> r.BASEDATETIME, SOG |-> r.SOG,
     STATUS |-> r.STATUS, LATLON |-> r.LATLON]
\* how many rows of the frame carry the attributes a
CountOf(frame, a) == Cardinality({i \in DOMAIN frame : Attributes(frame[i]) = a})
\* the rows of vessel v in the merged layer
MergedOf(v) ==
    FilterSeq(merged.rows, {i \in DOMAIN merged.rows : merged.rows[i].MMSI = v})

\* C14: cleaning only removes: every retained report of a vessel is one of its
\* input reports with the attributes unchanged, no input report is retained
\* more often than it came in, and so no more reports are retained than came in.
C14_CleaningOnlyRemoves ==
    \A v \in Vessels :
        /\ v \in DOMAIN layers =>
               /\ \A i \in DOMAIN layers[v] :
                      CountOf(layers[v], Attributes(layers[v][i]))
                          <= CountOf(csv[v], Attributes(layers[v][i]))
               /\ Len(layers[v]) <= Len(csv[v])
        /\ \A i \in DOMAIN MergedOf(v) :
               CountOf(MergedOf(v), Attributes(MergedOf(v)[i]))
                   <= CountOf(csv[v], Attributes(MergedOf(v)[i]))
        /\ Len(MergedOf(v)) <= Len(csv[v])
\* a file of which one report was kept and one was removed
C14_Witness ==
    \E v \in DOMAIN layers :
        /\ layers[v] # <<>>
        /\ Len(layers[v]) < Len(csv[v])
        /\ MergedOf(v) = layers[v]

\* the vessels the statistics, and later the summary file, have an entry for
InStats ==
    DOMAIN all_vessel_stats \cup {r.MMSI : r \in summary.rows}

\* C17: at every point of a run a vessel has a statistics entry or a vessel
\* layer only if its retained reports are in the merged layer, and a vessel
\* reported as an error has neither a statistics entry nor a layer.
C17_OutputsConsistent ==
    \A v \in Vessels :
        /\ v \in InStats \cup DOMAIN layers =>
               MergedOf(v) # <<>> /\ MergedOf(v) = CleanVessel(csv[v])
        /\ v \in DOMAIN outcome /\ outcome[v] = "Error" =>
               v \notin InStats \cup DOMAIN layers

\* the rows of the frame that make up the trip of metrics record m
TripRows(m) ==
    {i \in DOMAIN gdf : gdf[i].MMSI = m.MMSI /\ gdf[i].TRIP_ID = m.TRIP_ID}

\* C18: a trip whose HAD_STATIONARY is true holds two low-speed reports of one
\* run that lie at least 1.0 hour apart, so it lasts at least 1.0 hour, and a
\* trip of one single report never has HAD_STATIONARY true.
C18_HadStationaryIsReal ==
    pc = "tracked" =>
        \A m \in metrics :
            m.HAD_STATIONARY = 1 =>
                /\ \E a \in TripRows(m) : \E b \in TripRows(m) :
                       /\ a < b /\ Slow(a) /\ SameRun(a, b)
                       /\ gdf[b].BASEDATETIME - gdf[a].BASEDATETIME
                              >= StationaryHours * TicksPerHour
                /\ m.DURATION_HRS >= StationaryHours * TicksPerHour
                /\ Cardinality(TripRows(m)) > 1

\* hours (in ticks) between retained report i of the merged layer and the
\* report of the same vessel before it, 0 when there is none
HoursSincePrev(i) ==
    IF i = 1 THEN 0
    ELSE IF merged.rows[i - 1].MMSI # merged.rows[i].MMSI THEN 0
    ELSE IF merged.rows[i].BASEDATETIME = NULL
            \/ merged.rows[i - 1].BASEDATETIME = NULL THEN 0
    ELSE merged.rows[i].BASEDATETIME - merged.rows[i - 1].BASEDATETIME
RECURSIVE SumHours(_)
SumHours(S) ==
    IF S = {} THEN 0
    ELSE LET x == CHOOSE y \in S : TRUE
         IN  HoursSincePrev(x) + SumHours(S \ {x})
RECURSIVE SumVesselHours(_)
SumVesselHours(H) ==
    IF H = {} THEN 0
    ELSE LET h == CHOOSE y \in H : TRUE
         IN  h.VESSEL_HOURS + SumVesselHours(H \ {h})
\* the retained reports of vessel v that lie in hexagon c
ReportsIn(c, v) ==
    {i \in DOMAIN merged.rows :
        merged.rows[i].MMSI = v /\ LatLngToCell(merged.rows[i].LATLON) = c}

\* C15: every retained report belongs to exactly one (cell, vessel) record, the
\* value of a record is the sum of time-since-previous of that vessel's reports
\* in that cell with a null counted as 0, no record exists without a report,
\* and per vessel the vessel-hours of all cells add up to the time-since-previous
\* of all its retained reports.
C15_HexbinsConserveTime ==
    hexbins.exists =>
        /\ \A i \in DOMAIN merged.rows :
               Cardinality({h \in hexbins.rows :
                   i \in ReportsIn(h.h3_id, h.MMSI)}) = 1
        /\ \A h \in hexbins.rows :
               /\ ReportsIn(h.h3_id, h.MMSI) # {}
               /\ h.VESSEL_HOURS = SumHours(ReportsIn(h.h3_id, h.MMSI))
        /\ \A v \in Vessels :
               SumVesselHours({h \in hexbins.rows : h.MMSI = v})
                   = SumHours({i \in DOMAIN merged.rows : merged.rows[i].MMSI = v})
\* two vessels share a hexagon, one with hours in it and one without, and the
\* first vessel's reports lie at two positions of the hexagon
C15_Witness ==
    /\ hexbins.exists
    /\ \E g \in hexbins.rows : \E h \in hexbins.rows :
           /\ g.h3_id = h.h3_id /\ g.MMSI # h.MMSI
           /\ g.VESSEL_HOURS > 0 /\ h.VESSEL_HOURS = 0
           /\ \E i \in ReportsIn(g.h3_id, g.MMSI) :
                  \E j \in ReportsIn(g.h3_id, g.MMSI) :
                      merged.rows[i].LATLON # merged.rows[j].LATLON

\* both runs went through cleaning and trip building
BothRunsComplete == second_run /\ run1.pc = "tracked" /\ pc = "tracked"

\* C12: a second run of cleaning and trip building on the same input, started
\* from the files and layers the first run left, ends with the same retained
\* reports, trip identifiers, trip-start and stationary flags, metrics and
\* lines as the first run.
C12_SecondRunSame ==
    BothRunsComplete =>
        /\ merged = run1.merged
        /\ gdf = run1.gdf
        /\ metrics = run1.metrics
        /\ lines = run1.lines
\* both runs are complete, two vessels were exported, one of them has a second
\* trip, and the second run found the layers of the first
C12_Witness ==
    /\ BothRunsComplete
    /\ run1.merged.exists /\ run1.lines.exists
    /\ \E i \in DOMAIN gdf : \E j \in DOMAIN gdf :
           gdf[i].MMSI # gdf[j].MMSI /\ gdf[j].TRIP_ID >= 2

\* the vessels of this run that got as far as the export of lines 122-133
ReachedExport ==
    {v \in DOMAIN outcome :
        \/ outcome[v] = "Done"
        \/ outcome[v] = "Error" /\ fault[v] \in {"layer", "merged"}}

\* C16 as stated: at the end of a run in which at least one vessel reached the
\* export, the merged layer holds the retained reports of exactly the vessels
\* exported in this run, each once, and nothing of a previous run.
C16_MergedIsThisRun ==
    pc = "cleaned" /\ ReachedExport # {} =>
        merged.rows = CleanedBatch(NumVessels, Exported)

\* C16 amended: once the merged-layer write of at least one vessel of the run
\* has succeeded, the merged layer exists and holds the retained reports of
\* exactly the vessels exported so far in this run, file after file, each once,
\* and nothing of a previous run; first_vessel is still set exactly when no
\* write of the run has succeeded.
C16_MergedIsThisRunAfterWrite ==
    /\ pc \in {"loop", "cleaned"} => (first_vessel <=> Exported = {})
    /\ Exported # {} =>
           /\ merged.exists
           /\ merged.rows = CleanedBatch(NumVessels, Exported)
\* a second run in which the merged-layer write of the first vessel raised and
\* the second vessel replaced the two-vessel layer of the first run
C16_Witness ==
    /\ second_run /\ pc = "cleaned"
    /\ \E u \in Vessels : \E v \in Vessels :
           /\ u < v
           /\ outcome[u] = "Error" /\ fault[u] = "merged"
           /\ outcome[v] = "Done"
           /\ merged.rows = layers[v]
           /\ run1.merged.rows = layers[u] \o layers[v]

====
